---- MODULE Spec2Model ----
(***************************************************************************)
(* Model of the news scoring / filtering engine and its rule store         *)
(* (filter-rules-loader, src/unnamed/part_000), of the pipeline script     *)
(* that uses it (src/scripts/fetch-news.js) and of the older script with   *)
(* inline rules (src/unnamed/part_001).                                    *)
(*                                                                         *)
(* JavaScript values are represented as follows.                           *)
(*  - a string is a sequence of characters, each character a one-token     *)
(*    TLA+ string; Chinese characters are written as romanised tokens, one *)
(*    token per distinct character ("tai" "bei" is the city Taipei);       *)
(*  - an optional property is a set with no element (the property is       *)
(*    undefined) or with one element (its value);                          *)
(*  - an object whose key order matters (categories) is the sequence of    *)
(*    its entries, in Object.entries order.                                *)
(***************************************************************************)
EXTENDS Integers, Sequences, FiniteSets, TLC

VARIABLES rules, tested, scored, validation, filterRulesLoader, allNews,
          sourceIdx, filtered, pc, lastCall, files, env, retryCount, attempts,
          delays, sent, message, steps, error, exitCode

vars == <<rules, tested, scored, validation, filterRulesLoader, allNews,
          sourceIdx, filtered, pc, lastCall, files, env, retryCount, attempts,
          delays, sent, message, steps, error, exitCode>>

\* The state of a run of main and of the files and environment it reads.
runVars == <<files, env, retryCount, attempts, delays, sent, message, steps,
             error, exitCode>>

(***************************************************************************)
(* Bounds of the model.                                                    *)
(***************************************************************************)
BigBatch == 26      \* size of a large batch of articles from one source

(***************************************************************************)
(* Optional properties.                                                    *)
(***************************************************************************)
Undefined == {}
Some(v) == {v}
Get(o) == CHOOSE v \in o : TRUE

(***************************************************************************)
(* Strings.                                                                *)
(***************************************************************************)
\* String.prototype.toLowerCase on one character: only the Latin capitals of
\* the model's alphabet have a distinct lower-case form.
LowerChar(c) ==
  CASE c = "A" -> "a"
    [] c = "B" -> "b"
    [] c = "K" -> "k"
    [] c = "X" -> "x"
    [] OTHER -> c

toLowerCase(s) == [i \in 1..Len(s) |-> LowerChar(s[i])]

\* String.prototype.includes: pat occurs in text as a contiguous substring
\* (the empty pattern occurs in every text).
includes(text, pat) ==
  \E i \in 0..(Len(text) - Len(pat)) :
    \A j \in 1..Len(pat) : text[i + j] = pat[j]

\* String(undefined), what the + operator turns a missing property into.
UndefinedString == <<"u", "n", "d", "e", "f", "i", "n", "e", "d">>

StringOf(o) == IF o = Undefined THEN UndefinedString ELSE Get(o)

\* news.title + ' ' + news.summary
ConcatText(news) == StringOf(news.title) \o <<" ">> \o StringOf(news.summary)

\* The sentinel label '其他' returned when nothing matches.
Other == <<"qi", "ta">>

(***************************************************************************)
(* Program constants.                                                      *)
(***************************************************************************)
DefaultCityWeight == 10
DefaultKeywordWeight == 5
DefaultMinScore == 5
MaxResults == 50
NumSources == 3

\* x || d for an optional number x: undefined and 0 are both falsy.
NumberOr(x, d) == IF x = Undefined \/ x = Some(0) THEN d ELSE Get(x)

(***************************************************************************)
(* getDefaultRules                                                         *)
(***************************************************************************)
getDefaultRules ==
  [filterRules |-> Some(
     [cities |-> Some(
        [values |-> Some(<< <<"tai", "bei">>, <<"xin", "bei">>, <<"tao", "yuan">>,
                            <<"tai", "zhong">>, <<"tai", "nan">>, <<"gao", "xiong">> >>),
         weight |-> Some(10)]),
      keywords |-> Some(
        [values |-> Some(<< <<"mi", "shu", "chu">>, <<"mi", "shu", "zhang">>,
                            <<"shi", "zheng", "fu">>, <<"shi", "zhang">>,
                            <<"fu4", "shi", "zhang">>, <<"zheng", "ce">>,
                            <<"hui", "yi">>, <<"shi4", "cha">>,
                            <<"guo", "ji", "jiao", "liu">>, <<"qian", "shu3">> >>),
         weight |-> Some(5)]),
      excludeKeywords |-> Some(
        [values |-> Some(<< <<"yu", "le">>, <<"yun", "dong">>, <<"ming", "xing">>,
                            <<"ba", "gua">>, <<"gu", "shi">>, <<"fang", "shi">> >>),
         weight |-> Some(-100)]),
      categoryKeywords |-> Undefined]),
   scoringRules |-> Some([minScore |-> Some([type |-> "number", num |-> 5])])]

(***************************************************************************)
(* calculateScore (filter-rules-loader)                                    *)
(***************************************************************************)
\* values.forEach(v => { if (text.includes(v.toLowerCase())) score += weight })
RECURSIVE AddMatches(_, _, _, _, _)
AddMatches(values, i, text, weight, score) ==
  IF i > Len(values) THEN score
  ELSE AddMatches(values, i + 1, text, weight,
                  IF includes(text, toLowerCase(values[i]))
                  THEN score + weight ELSE score)

\* rules.filterRules || {} : the groups of filterRules, each undefined when
\* filterRules itself is.
FilterRulesOf(r) ==
  IF r.filterRules = Undefined
  THEN [cities |-> Undefined, keywords |-> Undefined,
        excludeKeywords |-> Undefined, categoryKeywords |-> Undefined]
  ELSE Get(r.filterRules)

\* group && group.values
HasValues(group) == group # Undefined /\ Get(group).values # Undefined

ValuesOf(group) == Get(Get(group).values)

\* calculateScore with the exclusion taken as one more weight: each exclude
\* keyword that occurs adds excludeKeywords.weight (-100 when missing) to the
\* score instead of resetting it.
calculateScore_ExcludeAsWeight(news, r) ==
  LET text == toLowerCase(ConcatText(news))
      fr == FilterRulesOf(r)
      afterCities ==
        IF HasValues(fr.cities)
        THEN AddMatches(ValuesOf(fr.cities), 1, text,
                        NumberOr(Get(fr.cities).weight, DefaultCityWeight), 0)
        ELSE 0
      afterKeywords ==
        IF HasValues(fr.keywords)
        THEN AddMatches(ValuesOf(fr.keywords), 1, text,
                        NumberOr(Get(fr.keywords).weight, DefaultKeywordWeight),
                        afterCities)
        ELSE afterCities
  IN IF HasValues(fr.excludeKeywords)
     THEN AddMatches(ValuesOf(fr.excludeKeywords), 1, text,
                     NumberOr(Get(fr.excludeKeywords).weight, -100),
                     afterKeywords)
     ELSE afterKeywords

calculateScore(news, r) ==
  LET text == toLowerCase(ConcatText(news))
      fr == FilterRulesOf(r)
      afterCities ==
        IF HasValues(fr.cities)
        THEN AddMatches(ValuesOf(fr.cities), 1, text,
                        NumberOr(Get(fr.cities).weight, DefaultCityWeight), 0)
        ELSE 0
      afterKeywords ==
        IF HasValues(fr.keywords)
        THEN AddMatches(ValuesOf(fr.keywords), 1, text,
                        NumberOr(Get(fr.keywords).weight, DefaultKeywordWeight),
                        afterCities)
        ELSE afterCities
  IN IF /\ HasValues(fr.excludeKeywords)
        /\ \E i \in 1..Len(ValuesOf(fr.excludeKeywords)) :
             includes(text, toLowerCase(ValuesOf(fr.excludeKeywords)[i]))
     THEN 0
     ELSE afterKeywords

(***************************************************************************)
(* extractCategory, extractCity (filter-rules-loader)                      *)
(***************************************************************************)
\* rules.filterRules?.categoryKeywords?.categories || {} as its entries
CategoriesOf(r) ==
  LET ck == FilterRulesOf(r).categoryKeywords
  IN IF ck = Undefined \/ Get(ck).categories = Undefined
     THEN <<>>
     ELSE Get(Get(ck).categories)

\* config.keywords is defined and one of its keywords occurs in text
CategoryMatches(config, text) ==
  /\ config.keywords # Undefined
  /\ \E k \in 1..Len(Get(config.keywords)) :
       includes(text, toLowerCase(Get(config.keywords)[k]))

RECURSIVE ScanCategories(_, _, _)
ScanCategories(entries, i, text) ==
  IF i > Len(entries) THEN Other
  ELSE IF CategoryMatches(entries[i], text) THEN entries[i].name
  ELSE ScanCategories(entries, i + 1, text)

\* extractCategory that compares the keywords as they are written, without
\* lower-casing them.
extractCategory_KeywordCase(news, r) ==
  LET text == toLowerCase(ConcatText(news))
      entries == CategoriesOf(r)
      hits == {i \in 1..Len(entries) :
                 /\ entries[i].keywords # Undefined
                 /\ \E k \in 1..Len(Get(entries[i].keywords)) :
                      includes(text, Get(entries[i].keywords)[k])}
  IN IF hits = {} THEN Other
     ELSE entries[CHOOSE i \in hits : \A h \in hits : i <= h].name

extractCategory(news, r) ==
  ScanCategories(CategoriesOf(r), 1, toLowerCase(ConcatText(news)))

\* rules.filterRules?.cities?.values || []
CityValuesOf(r) ==
  LET c == FilterRulesOf(r).cities
  IN IF HasValues(c) THEN ValuesOf(c) ELSE <<>>

RECURSIVE ScanCities(_, _, _)
ScanCities(cities, i, text) ==
  IF i > Len(cities) THEN Other
  ELSE IF includes(text, cities[i]) THEN cities[i]
  ELSE ScanCities(cities, i + 1, text)

\* extractCity that ignores case, as calculateScore does.
extractCity_IgnoreCase(news, r) ==
  LET cities == CityValuesOf(r)
      hits == {i \in 1..Len(cities) :
                 includes(toLowerCase(ConcatText(news)), toLowerCase(cities[i]))}
  IN IF hits = {} THEN Other
     ELSE cities[CHOOSE i \in hits : \A h \in hits : i <= h]

extractCity(news, r) == ScanCities(CityValuesOf(r), 1, ConcatText(news))

(***************************************************************************)
(* calculateScore of src/scripts/fetch-news.js: the loader's function when *)
(* the loader module could be required, the built-in copy otherwise.       *)
(***************************************************************************)
\* The built-in copy with a record taken as excluded when the rules have no
\* exclude keywords to clear it.
calculateScoreBuiltin_ExcludeWhenMissing(news, r) ==
  LET text == toLowerCase(ConcatText(news))
      fr == FilterRulesOf(r)
      afterCities ==
        IF HasValues(fr.cities)
        THEN AddMatches(ValuesOf(fr.cities), 1, text,
                        NumberOr(Get(fr.cities).weight, DefaultCityWeight), 0)
        ELSE 0
      afterKeywords ==
        IF HasValues(fr.keywords)
        THEN AddMatches(ValuesOf(fr.keywords), 1, text,
                        NumberOr(Get(fr.keywords).weight, DefaultKeywordWeight),
                        afterCities)
        ELSE afterCities
  IN IF \/ ~HasValues(fr.excludeKeywords)
        \/ \E i \in 1..Len(ValuesOf(fr.excludeKeywords)) :
             includes(text, toLowerCase(ValuesOf(fr.excludeKeywords)[i]))
     THEN 0
     ELSE afterKeywords

calculateScoreBuiltin(news, r) ==
  LET text == toLowerCase(ConcatText(news))
      fr == FilterRulesOf(r)
      afterCities ==
        IF HasValues(fr.cities)
        THEN AddMatches(ValuesOf(fr.cities), 1, text,
                        NumberOr(Get(fr.cities).weight, DefaultCityWeight), 0)
        ELSE 0
      afterKeywords ==
        IF HasValues(fr.keywords)
        THEN AddMatches(ValuesOf(fr.keywords), 1, text,
                        NumberOr(Get(fr.keywords).weight, DefaultKeywordWeight),
                        afterCities)
        ELSE afterCities
  IN IF /\ HasValues(fr.excludeKeywords)
        /\ \E i \in 1..Len(ValuesOf(fr.excludeKeywords)) :
             includes(text, toLowerCase(ValuesOf(fr.excludeKeywords)[i]))
     THEN 0
     ELSE afterKeywords

calculateScoreScript(loader, news, r) ==
  IF loader THEN calculateScore(news, r) ELSE calculateScoreBuiltin(news, r)

extractCityScript(loader, news, r) ==
  IF loader THEN extractCity(news, r)
  ELSE ScanCities(CityValuesOf(r), 1, ConcatText(news))

extractCategoryScript(loader, news, r) ==
  IF loader THEN extractCategory(news, r)
  ELSE ScanCategories(CategoriesOf(r), 1, toLowerCase(ConcatText(news)))

(***************************************************************************)
(* calculateScore of the script with inline rules (src/unnamed/part_001):  *)
(* the rules are the CONFIG.FILTER_RULES object, the weights are used as   *)
(* they are, and an exclusion resets the score inside the loop.            *)
(***************************************************************************)
RECURSIVE ResetOnMatches(_, _, _, _)
ResetOnMatches(values, i, text, score) ==
  IF i > Len(values) THEN score
  ELSE ResetOnMatches(values, i + 1, text,
                      IF includes(text, toLowerCase(values[i])) THEN 0 ELSE score)

calculateScoreInline(news, cfg) ==
  LET text == toLowerCase(ConcatText(news))
      afterCities == AddMatches(cfg.cities, 1, text, cfg.weights.city, 0)
      afterKeywords ==
        AddMatches(cfg.keywords, 1, text, cfg.weights.keyword, afterCities)
  IN ResetOnMatches(cfg.excludeKeywords, 1, text, afterKeywords)

CONFIG_FILTER_RULES ==
  [cities |-> << <<"tai", "bei">>, <<"xin", "bei">>, <<"tao", "yuan">>,
                 <<"tai", "zhong">>, <<"tai", "nan">>, <<"gao", "xiong">> >>,
   keywords |-> << <<"mi", "shu", "chu">>, <<"mi", "shu", "zhang">>,
                   <<"shi", "zheng", "fu">>, <<"shi", "zhang">>,
                   <<"fu4", "shi", "zhang">>, <<"ju2", "zhang">>,
                   <<"zheng", "ce">>, <<"hui", "yi">>, <<"shi4", "cha">>,
                   <<"guo", "ji", "jiao", "liu">>, <<"qian", "shu3">>,
                   <<"xie", "yi">> >>,
   excludeKeywords |-> << <<"yu", "le">>, <<"yun", "dong">>, <<"ming", "xing">>,
                          <<"ba", "gua">>, <<"gu", "shi">>, <<"fang", "shi">>,
                          <<"tian", "qi">>, <<"chong", "wu">> >>,
   weights |-> [city |-> 10, keyword |-> 5, category |-> 3],
   minScore |-> 5]

(***************************************************************************)
(* testRules: score, city, category and verdict of every test record.      *)
(***************************************************************************)
\* rules.scoringRules?.minScore || 5.  A minScore is a JavaScript value: a
\* number, or a string that is not the text of a number.  0 is falsy, every
\* string of the model is truthy.
MinScoreOf(r) ==
  LET d == [type |-> "number", num |-> DefaultMinScore]
  IN IF r.scoringRules = Undefined THEN d
     ELSE LET m == Get(r.scoringRules).minScore
          IN IF m = Undefined THEN d
             ELSE IF Get(m).type = "number" /\ Get(m).num = 0 THEN d
             ELSE Get(m)

\* score >= minScore: the string converts to NaN and every comparison with
\* NaN is false.
AtLeast(score, m) == m.type = "number" /\ score >= m.num

testRules(testNews, r) ==
  [i \in 1..Len(testNews) |->
     [news |-> testNews[i],
      score |-> calculateScore(testNews[i], r),
      city |-> extractCity(testNews[i], r),
      category |-> extractCategory(testNews[i], r),
      passed |-> AtLeast(calculateScore(testNews[i], r), MinScoreOf(r))]]

(***************************************************************************)
(* validateRules                                                           *)
(***************************************************************************)
\* !rules.filterRules?.<group>?.values || values.length === 0
EmptyGroup(r, name) ==
  LET g == FilterRulesOf(r)[name]
  IN ~HasValues(g) \/ Len(ValuesOf(g)) = 0

\* The result is a record: threw tells whether the call raised a TypeError
\* (reading minScore of an undefined scoringRules) instead of returning; errors
\* are the messages pushed up to that point.
validateRules(r) ==
  LET e1 == IF r.filterRules = Undefined THEN <<"missing filterRules">> ELSE <<>>
      e2 == IF r.scoringRules = Undefined THEN <<"missing scoringRules">> ELSE <<>>
      e3 == IF EmptyGroup(r, "cities") THEN <<"cities empty">> ELSE <<>>
      e4 == IF EmptyGroup(r, "keywords") THEN <<"keywords empty">> ELSE <<>>
      sofar == e1 \o e2 \o e3 \o e4
  IN IF r.scoringRules = Undefined
     THEN [threw |-> TRUE, valid |-> FALSE, errors |-> sofar]
     ELSE LET m == Get(r.scoringRules).minScore
              e5 == IF m = Undefined \/ Get(m).type # "number"
                    THEN <<"minScore not a number">> ELSE <<>>
          IN [threw |-> FALSE,
              valid |-> Len(sofar \o e5) = 0,
              errors |-> sofar \o e5]

(***************************************************************************)
(* filterNews                                                              *)
(***************************************************************************)
\* Array.prototype.sort((a, b) => b.score - a.score), a stable sort
\* (ECMAScript 2019).  The comparison function orders the records by
\* descending score and calls records of one score equal, so the result is
\* the records of the greatest score in the order they had, then those of
\* the next score, and so on.
Greatest(scores) == CHOOSE m \in scores : \A v \in scores : m - v >= 0

RECURSIVE SortedBuckets(_, _)
SortedBuckets(s, scores) ==
  IF scores = {} THEN <<>>
  ELSE LET m == Greatest(scores)
       IN SelectSeq(s, LAMBDA n : n.score = m) \o SortedBuckets(s, scores \ {m})

\* sort((a, b) => a.score - b.score): ascending instead of descending.
RECURSIVE AscendingBuckets(_, _)
AscendingBuckets(s, scores) ==
  IF scores = {} THEN <<>>
  ELSE LET m == Greatest(scores)
       IN AscendingBuckets(s, scores \ {m}) \o SelectSeq(s, LAMBDA n : n.score = m)

SortByScore_Ascending(s) == AscendingBuckets(s, {s[i].score : i \in 1..Len(s)})

\* A sort that is not stable: records of equal score come out in the reverse
\* of the order they had.
Reversed(s) == [i \in 1..Len(s) |-> s[Len(s) + 1 - i]]

SortByScore_Unstable(s) == Reversed(SortByScore_Ascending(s))

SortByScore(s) == SortedBuckets(s, {s[i].score : i \in 1..Len(s)})

\* .slice(0, 50)
\* The pipeline without .slice(0, 50).
Slice_NoCap(s) == s

Slice(s) == SubSeq(s, 1, IF Len(s) < MaxResults THEN Len(s) ELSE MaxResults)

\* { ...news, score, city, category }
ScoredRecord(news, score, city, category) ==
  [title |-> news.title, summary |-> news.summary, url |-> news.url,
   score |-> score, city |-> city, category |-> category]

Threshold(r, s) == SelectSeq(s, LAMBDA n : AtLeast(n.score, MinScoreOf(r)))

filterNews(news, r) ==
  LET mapped == [i \in 1..Len(news) |->
                   ScoredRecord(news[i], calculateScore(news[i], r),
                                extractCity(news[i], r),
                                extractCategory(news[i], r))]
  IN Slice(SortByScore(Threshold(r, mapped)))

\* filterNews of src/scripts/fetch-news.js
filterNewsScript(loader, news, r) ==
  IF loader THEN filterNews(news, r)
  ELSE LET mapped == [i \in 1..Len(news) |->
                        ScoredRecord(news[i],
                                     calculateScoreScript(loader, news[i], r),
                                     extractCityScript(loader, news[i], r),
                                     extractCategoryScript(loader, news[i], r))]
       IN Slice(SortByScore(Threshold(r, mapped)))

(***************************************************************************)
(* Inputs: rule documents and news records.                                *)
(***************************************************************************)
Group(values, weight) == [values |-> Some(values), weight |-> weight]

Num(n) == [type |-> "number", num |-> n]
NotANumber == [type |-> "string", num |-> 0]

Document(cities, keywords, excludeKeywords, categoryKeywords, minScore) ==
  [filterRules |-> Some([cities |-> cities, keywords |-> keywords,
                         excludeKeywords |-> excludeKeywords,
                         categoryKeywords |-> categoryKeywords]),
   scoringRules |-> Some([minScore |-> minScore])]

CityGroups ==
  { Group(<<>>, Undefined),
    Group(<< <<"A", "b">>, <<"c">> >>, Undefined),
    Group(<< <<"A", "b">>, <<"c">> >>, Some(0)),
    Group(<< <<"c">>, <<"A", "b">>, <<"a", "b">> >>, Some(3)) }

KeywordGroups ==
  { Group(<<>>, Undefined),
    Group(<< <<"k">>, <<"b", "k">> >>, Undefined),
    Group(<< <<"k">>, <<"b", "k">> >>, Some(0)),
    Group(<< <<"K">>, <<"b", "k">> >>, Some(2)) }

ExcludeGroups ==
  { Undefined, Some(Group(<< <<"q">>, <<"X">> >>, Some(-100))) }

Categories ==
  << [name |-> <<"cat1">>, keywords |-> Undefined],
     [name |-> <<"cat2">>, keywords |-> Some(<< <<"B">> >>)],
     [name |-> <<"cat3">>, keywords |-> Some(<< <<"z">>, <<"k">> >>)] >>

CategoryGroups == { Undefined, Some([categories |-> Some(Categories)]) }

MinScores == { Undefined, Some(Num(5)), Some(NotANumber) }

\* Documents with every required group, and documents that lack one.
CompleteDocuments ==
  { Document(Some(c), Some(k), x, g, m) :
      c \in CityGroups, k \in KeywordGroups, x \in ExcludeGroups,
      g \in CategoryGroups, m \in MinScores }

PartialDocuments ==
  LET c == Some(Group(<< <<"A", "b">>, <<"c">> >>, Some(3)))
      k == Some(Group(<< <<"k">> >>, Some(2)))
      x == Some(Group(<< <<"X">> >>, Undefined))
      full == Document(c, k, x, Undefined, Some(Num(5)))
  IN { [full EXCEPT !.filterRules = Undefined],
       [full EXCEPT !.scoringRules = Undefined],
       [filterRules |-> Undefined, scoringRules |-> Undefined],
       Document(Undefined, k, x, Undefined, Some(Num(5))),
       Document(c, Undefined, x, Undefined, Some(Num(5))),
       Document(Some([values |-> Undefined, weight |-> Some(3)]), k, x,
                Undefined, Some(Num(5))),
       Document(c, Some([values |-> Undefined, weight |-> Undefined]),
                Some([values |-> Undefined, weight |-> Undefined]),
                Some([categories |-> Undefined]), Some(Num(5))) }

RuleSets == CompleteDocuments \cup PartialDocuments \cup {getDefaultRules}

News(title, summary, url) ==
  [title |-> Some(title), summary |-> Some(summary), url |-> url]

\* "台北市政府秘書長視察活動"
ExampleTitle ==
  <<"tai", "bei", "shi", "zheng", "fu", "mi", "shu", "zhang", "shi4", "cha",
    "huo", "dong">>

\* "市政府舉辦國際交流簽署儀式"
ExampleSummary ==
  <<"shi", "zheng", "fu", "ju", "ban", "guo", "ji", "jiao", "liu", "qian",
    "shu3", "yi2", "shi5">>

ExampleNews == News(ExampleTitle, ExampleSummary, 0)

\* the same record with "股市" added to the summary
ExampleExcluded == News(ExampleTitle, ExampleSummary \o <<"gu", "shi">>, 0)

Candidates ==
  { News(<<"c", " ", "A", "b">>, <<"k">>, 0),
    News(<<"a", "b", " ", "c">>, <<"b", "k">>, 0),
    News(<<"A", "b", " ", "k">>, <<"x">>, 0),
    News(<<"c", " ", "q">>, <<"B", "K">>, 0),
    News(<<"A">>, <<"b">>, 0),
    News(<<>>, <<>>, 0),
    ExampleNews,
    ExampleExcluded }

\* A file of the configuration: absent, present but unreadable, or readable
\* with a content that is not JSON, that is the JSON null, or that is a rule
\* document.
NoFile == [kind |-> "absent"]

\* No run of main is under way: no file, no environment, nothing sent.
RunIdle ==
  /\ files = [cwd |-> NoFile, dir |-> NoFile]
  /\ env = [botToken |-> FALSE, chatId |-> FALSE]
  /\ retryCount = 0
  /\ attempts = <<>>
  /\ delays = <<>>
  /\ sent = Undefined
  /\ message = Undefined
  /\ steps = <<>>
  /\ error = Undefined
  /\ exitCode = Undefined

(***************************************************************************)
(* Specification of the rule store and the scoring functions: a rule       *)
(* document is loaded and a list of news records is at hand (allNews), and *)
(* the functions are applied to them.                                      *)
(***************************************************************************)
Init ==
  /\ lastCall = Undefined
  /\ RunIdle
  /\ rules \in RuleSets
  /\ filterRulesLoader \in BOOLEAN
  /\ tested = <<>>
  /\ scored = Undefined
  /\ validation = Undefined
  /\ allNews \in {<<n>> : n \in Candidates}
  /\ sourceIdx = 1
  /\ filtered = <<>>
  /\ pc = "rules"

\* testRules(testNews, rules)
TestRules ==
  /\ pc = "rules"
  /\ tested' = testRules(allNews, rules)
  /\ UNCHANGED <<rules, scored, validation, filterRulesLoader, allNews,
                 sourceIdx, filtered, pc>>
  /\ UNCHANGED <<lastCall, runVars>>

\* The rule document can be written as the inline rules of the script: the
\* three lists and the two weights are there.
InlineForm(r) ==
  /\ r.filterRules # Undefined
  /\ \A name \in {"cities", "keywords", "excludeKeywords"} :
       HasValues(Get(r.filterRules)[name])
  /\ \A name \in {"cities", "keywords"} :
       Get(Get(r.filterRules)[name]).weight # Undefined

\* CONFIG.FILTER_RULES with the cities, keywords, exclude keywords and weights
\* of a rule document.
InlineConfigOf(r) ==
  LET fr == Get(r.filterRules)
  IN [cities |-> ValuesOf(fr.cities),
      keywords |-> ValuesOf(fr.keywords),
      excludeKeywords |-> ValuesOf(fr.excludeKeywords),
      weights |-> [city |-> Get(Get(fr.cities).weight),
                   keyword |-> Get(Get(fr.keywords).weight),
                   category |-> CONFIG_FILTER_RULES.weights.category],
      minScore |-> CONFIG_FILTER_RULES.minScore]

\* calculateScore(news, rules) of fetch-news.js on a record, and
\* calculateScore(news) of the script with inline rules on the same record;
\* next to them the loader's function, the built-in copy and the inline
\* function on the same rules
CalculateScore ==
  /\ pc = "rules"
  /\ \E i \in 1..Len(allNews) :
       scored' = Some([news |-> allNews[i],
                       score |-> calculateScoreScript(filterRulesLoader,
                                                      allNews[i], rules),
                       inline |-> calculateScoreInline(allNews[i],
                                                       CONFIG_FILTER_RULES),
                       loader |-> calculateScore(allNews[i], rules),
                       builtin |-> calculateScoreBuiltin(allNews[i], rules),
                       inlineSame |->
                         IF InlineForm(rules)
                         THEN Some(calculateScoreInline(allNews[i],
                                                        InlineConfigOf(rules)))
                         ELSE Undefined])
  /\ UNCHANGED <<rules, tested, validation, filterRulesLoader, allNews,
                 sourceIdx, filtered, pc>>
  /\ UNCHANGED <<lastCall, runVars>>

\* validateRules(rules)
ValidateRules ==
  /\ pc = "rules"
  /\ validation' = Some(validateRules(rules))
  /\ UNCHANGED <<rules, tested, scored, filterRulesLoader, allNews, sourceIdx,
                 filtered, pc>>
  /\ UNCHANGED <<lastCall, runVars>>

Next == TestRules \/ CalculateScore \/ ValidateRules

Spec == Init /\ [][Next]_vars

(***************************************************************************)
(* Specification of the pipeline of fetch-news.js up to the filter: the    *)
(* sources are fetched one after the other, each appending its articles to *)
(* allNews, then the list is filtered.                                     *)
(***************************************************************************)
FilterRuleSets ==
  LET c == Some(Group(<< <<"A", "b">>, <<"c">> >>, Some(3)))
      k == Some(Group(<< <<"k">> >>, Some(-4)))
      x == Some(Group(<< <<"X">> >>, Some(-100)))
  IN { Document(c, k, x, Some([categories |-> Some(Categories)]), m) :
         m \in {Undefined, Some(Num(0)), Some(Num(-1)), Some(Num(3)),
                Some(Num(6)), Some(NotANumber)} }

\* Articles a source yields: none (also when the request fails), or a number
\* of articles with the title and summary of one of these, under
\* consecutive urls.
Articles ==
  { News(<<"c", " ", "A", "b">>, <<"z">>, 0),
    News(<<"a", "b">>, <<"k">>, 0),
    News(<<"c">>, <<>>, 0),
    News(<<"A", "b">>, <<"B">>, 0) }

BatchSizes == {1, BigBatch}

Batch(a, n, first) == [i \in 1..n |-> [a EXCEPT !.url = first + i - 1]]

InitFilter ==
  /\ lastCall = Undefined
  /\ RunIdle
  /\ rules \in FilterRuleSets
  /\ filterRulesLoader \in BOOLEAN
  /\ tested = <<>>
  /\ scored = Undefined
  /\ validation = Undefined
  /\ allNews = <<>>
  /\ sourceIdx = 1
  /\ filtered = <<>>
  /\ pc = "fetch"

\* one iteration of the loop of fetchAllNews: allNews.push(...news)
FetchFromSource ==
  /\ pc = "fetch"
  /\ sourceIdx <= NumSources
  /\ \/ allNews' = allNews
     \/ \E a \in Articles, n \in BatchSizes :
          allNews' = allNews \o Batch(a, n, Len(allNews) + 1)
  /\ sourceIdx' = sourceIdx + 1
  /\ UNCHANGED <<rules, tested, scored, validation, filterRulesLoader,
                 filtered, pc>>
  /\ UNCHANGED <<lastCall, runVars>>

\* const filteredNews = filterNews(allNews, rules)
FilterNews ==
  /\ pc = "fetch"
  /\ sourceIdx > NumSources
  /\ filtered' = filterNewsScript(filterRulesLoader, allNews, rules)
  /\ pc' = "filtered"
  /\ UNCHANGED <<rules, tested, scored, validation, filterRulesLoader,
                 allNews, sourceIdx>>
  /\ UNCHANGED <<lastCall, runVars>>

NextFilter == FetchFromSource \/ FilterNews

SpecFilter == InitFilter /\ [][NextFilter]_vars

TypeOK ==
  /\ pc \in {"rules", "fetch", "filtered", "m_start", "m_fetch", "m_send",
            "m_wait", "m_sent", "m_exit"}
  /\ sourceIdx \in 1..(NumSources + 1)

(***************************************************************************)
(* Properties of the scoring functions (specification Spec).               *)
(***************************************************************************)
\* The positions of values whose lower-case form occurs in the lower-cased
\* title + ' ' + summary of a record.
MatchingValues(news, values) ==
  {i \in 1..Len(values) :
     includes(toLowerCase(ConcatText(news)), toLowerCase(values[i]))}

\* The values of a group of a rule document, none when the group, or its
\* values, are missing.
ConfiguredValues(r, name) ==
  IF r.filterRules = Undefined THEN <<>>
  ELSE LET g == Get(r.filterRules)[name]
       IN IF g = Undefined \/ Get(g).values = Undefined THEN <<>>
          ELSE Get(Get(g).values)

\* The weight of a group as the document states it: the configured number,
\* the default only when the group or its weight is missing.
ConfiguredWeight(r, name, default) ==
  IF r.filterRules = Undefined THEN default
  ELSE LET g == Get(r.filterRules)[name]
       IN IF g = Undefined \/ Get(g).weight = Undefined THEN default
          ELSE Get(Get(g).weight)

Excluded(news, r) ==
  MatchingValues(news, ConfiguredValues(r, "excludeKeywords")) # {}

CityCount(news, r) ==
  Cardinality(MatchingValues(news, ConfiguredValues(r, "cities")))

KeywordCount(news, r) ==
  Cardinality(MatchingValues(news, ConfiguredValues(r, "keywords")))

\* C1: a record whose text contains an exclude keyword scores exactly 0,
\* whatever cities and keywords it also contains: in testRules, in
\* calculateScore of fetch-news.js and, against the inline rules, in
\* calculateScore of the script with inline rules.
C1_ExcludedScoresZero ==
  /\ \A i \in 1..Len(tested) :
       Excluded(tested[i].news, rules) => tested[i].score = 0
  /\ scored # Undefined =>
       /\ Excluded(Get(scored).news, rules) => Get(scored).score = 0
       /\ MatchingValues(Get(scored).news, CONFIG_FILTER_RULES.excludeKeywords) # {}
            => Get(scored).inline = 0

\* A record with an exclude keyword and with matching cities and keywords has
\* been scored 0 by both functions.
C1_Witness ==
  /\ Len(tested) = 1
  /\ scored # Undefined
  /\ Excluded(tested[1].news, rules)
  /\ CityCount(tested[1].news, rules) >= 1
  /\ KeywordCount(tested[1].news, rules) >= 1
  /\ ConfiguredWeight(rules, "cities", DefaultCityWeight) > 0
  /\ tested[1].score = 0
  /\ Get(scored).score = 0

\* C2: a record with no exclude keyword scores cities.weight times the number
\* of matching cities plus keywords.weight times the number of matching
\* keywords, and the example record scores 35 under the default rules.
C2_ScoreIsWeightedCount ==
  \A i \in 1..Len(tested) :
    /\ ~Excluded(tested[i].news, rules) =>
         tested[i].score =
           ConfiguredWeight(rules, "cities", DefaultCityWeight)
             * CityCount(tested[i].news, rules)
           + ConfiguredWeight(rules, "keywords", DefaultKeywordWeight)
             * KeywordCount(tested[i].news, rules)
    /\ (rules = getDefaultRules /\ tested[i].news = ExampleNews) =>
         tested[i].score = 35

\* C7: extractCity returns the first configured city that occurs literally in
\* title + ' ' + summary, and the sentinel when none does.
C7_FirstLiteralCity ==
  \A i \in 1..Len(tested) :
    LET cities == ConfiguredValues(rules, "cities")
        hits == {k \in 1..Len(cities) :
                   includes(ConcatText(tested[i].news), cities[k])}
    IN /\ hits = {} => tested[i].city = Other
       /\ hits # {} =>
            tested[i].city = cities[CHOOSE k \in hits : \A h \in hits : k <= h]
       /\ tested[i].city \in {cities[k] : k \in 1..Len(cities)} \cup {Other}

\* extractCity has passed over a city that matches only when case is ignored
\* and returned a later city that occurs literally.
C7_Witness ==
  /\ Len(tested) = 1
  /\ tested[1].city # Other
  /\ LET cities == ConfiguredValues(rules, "cities")
     IN \E k \in 1..Len(cities) :
          /\ cities[k] = tested[1].city
          /\ \E h \in 1..(k - 1) :
               /\ h \in MatchingValues(tested[1].news, cities)
               /\ ~includes(ConcatText(tested[1].news), cities[h])

\* C8: extractCategory returns the first category, in mapping order, one of
\* whose keywords occurs (case ignored) in the text, and the sentinel when no
\* category matches or the rules have no categoryKeywords.
C8_FirstMatchingCategory ==
  \A i \in 1..Len(tested) :
    LET present == /\ rules.filterRules # Undefined
                   /\ Get(rules.filterRules).categoryKeywords # Undefined
                   /\ Get(Get(rules.filterRules).categoryKeywords).categories
                        # Undefined
        entries == IF present
                   THEN Get(Get(Get(rules.filterRules).categoryKeywords).categories)
                   ELSE <<>>
        hits == {k \in 1..Len(entries) :
                   /\ entries[k].keywords # Undefined
                   /\ MatchingValues(tested[i].news, Get(entries[k].keywords)) # {}}
    IN /\ hits = {} => tested[i].category = Other
       /\ hits # {} =>
            tested[i].category =
              entries[CHOOSE k \in hits : \A h \in hits : k <= h].name

\* extractCategory has returned a category that is followed by another
\* matching category.
C8_Witness ==
  /\ Len(tested) = 1
  /\ tested[1].category = Categories[2].name
  /\ MatchingValues(tested[1].news, Get(Categories[3].keywords)) # {}

\* C9: the configured weights are used as they are, 0 included: with no
\* exclude keyword, when only cities match the score is the configured
\* cities.weight for each, and when only keywords match it is the configured
\* keywords.weight for each.
C9_ConfiguredWeightUsed ==
  \A i \in 1..Len(tested) :
    LET n == tested[i].news
    IN ~Excluded(n, rules) =>
         /\ KeywordCount(n, rules) = 0 =>
              tested[i].score =
                ConfiguredWeight(rules, "cities", DefaultCityWeight)
                  * CityCount(n, rules)
         /\ CityCount(n, rules) = 0 =>
              tested[i].score =
                ConfiguredWeight(rules, "keywords", DefaultKeywordWeight)
                  * KeywordCount(n, rules)

\* The checks of validateRules, as the specification lists them.
StructurallyComplete(r) ==
  /\ r.filterRules # Undefined
  /\ r.scoringRules # Undefined
  /\ Len(ConfiguredValues(r, "cities")) > 0
  /\ Len(ConfiguredValues(r, "keywords")) > 0
  /\ Get(r.scoringRules).minScore # Undefined
  /\ Get(Get(r.scoringRules).minScore).type = "number"

\* C10: validateRules never throws; it returns valid exactly when every check
\* passes, and at least one error otherwise.
C10_ValidateRejectsWithoutThrowing ==
  validation # Undefined =>
    /\ ~Get(validation).threw
    /\ Get(validation).valid <=> StructurallyComplete(rules)
    /\ Get(validation).valid <=> Len(Get(validation).errors) = 0

(***************************************************************************)
(* Properties of filterNews (specification SpecFilter).  The url of a      *)
(* record of allNews is its position in allNews.                           *)
(***************************************************************************)
\* The score the script gives a record of allNews.
ScoreOf(n) == calculateScoreScript(filterRulesLoader, n, rules)

\* The positions in allNews of the records that pass the threshold in use.
Passing ==
  {k \in 1..Len(allNews) : AtLeast(ScoreOf(allNews[k]), MinScoreOf(rules))}

\* scoringRules.minScore as the rule document states it.
ConfiguredMinScore(r) ==
  IF r.scoringRules = Undefined THEN Undefined
  ELSE Get(r.scoringRules).minScore

\* C3: the output of filterNews is non-increasing in score, and every record
\* of it has a score of at least the configured minScore (of at least 5 when
\* none is configured).
C3_SortedAboveMinScore ==
  pc = "filtered" =>
    /\ \A i \in 1..(Len(filtered) - 1) :
         filtered[i].score >= filtered[i + 1].score
    /\ \A i \in 1..Len(filtered) :
         LET m == ConfiguredMinScore(rules)
         IN /\ m = Undefined => filtered[i].score >= DefaultMinScore
            /\ (m # Undefined /\ Get(m).type = "number") =>
                 filtered[i].score >= Get(m).num

\* filterNews has returned records of different scores in another order than
\* they were fetched in.
C3_Witness ==
  /\ pc = "filtered"
  /\ Len(filtered) >= 3
  /\ filtered[1].score > filtered[Len(filtered)].score
  /\ \E i, j \in 1..Len(filtered) : i < j /\ filtered[i].url > filtered[j].url

\* C4: for a configured numeric minScore, 0 and negative numbers included,
\* and at most 50 records, the output holds exactly the records whose score is
\* at least that minScore; 5 stands in only for a missing minScore.
C4_ExactlyAboveConfiguredMinScore ==
  (pc = "filtered" /\ Len(allNews) <= 50) =>
    LET m == ConfiguredMinScore(rules)
        kept == {filtered[i].url : i \in 1..Len(filtered)}
    IN /\ m = Undefined =>
            kept = {k \in 1..Len(allNews) : ScoreOf(allNews[k]) >= DefaultMinScore}
       /\ (m # Undefined /\ Get(m).type = "number") =>
            kept = {k \in 1..Len(allNews) : ScoreOf(allNews[k]) >= Get(m).num}

\* C5: records of equal score stand in the output in the order they had in
\* the input, and when more than 50 records pass the threshold the output is
\* the first 50 of the stable descending order: every passing record left
\* out stands, in that order, after every record kept.
C5_StableOrder ==
  pc = "filtered" =>
    /\ \A i, j \in 1..Len(filtered) :
         (i < j /\ filtered[i].score = filtered[j].score) =>
           filtered[i].url < filtered[j].url
    /\ Cardinality(Passing) > 50 =>
         /\ Len(filtered) = 50
         /\ \A k \in Passing \ {filtered[i].url : i \in 1..Len(filtered)} :
              \A i \in 1..Len(filtered) :
                \/ filtered[i].score > ScoreOf(allNews[k])
                \/ /\ filtered[i].score = ScoreOf(allNews[k])
                   /\ filtered[i].url < k

\* More than 50 records passed, the output was reordered, it holds records of
\* equal score and different text, and a record of the score of the last one
\* kept was left out.
C5_Witness ==
  /\ pc = "filtered"
  /\ Cardinality(Passing) > 50
  /\ Len(filtered) = 50
  /\ \E i, j \in 1..Len(filtered) : i < j /\ filtered[i].url > filtered[j].url
  /\ \E i, j \in 1..Len(filtered) :
       /\ filtered[i].score = filtered[j].score
       /\ filtered[i].title # filtered[j].title
  /\ \E k \in Passing :
       /\ k \notin {filtered[i].url : i \in 1..Len(filtered)}
       /\ ScoreOf(allNews[k]) = filtered[50].score

\* C6: the output of filterNews has at most 50 records and at most as many as
\* the input, and is empty for an empty input.
C6_LengthBounded ==
  pc = "filtered" =>
    /\ Len(filtered) <= 50
    /\ Len(filtered) <= Len(allNews)
    /\ allNews = <<>> => filtered = <<>>

\* filterNews has cut a longer list of passing records down to 50.
C6_Witness ==
  /\ pc = "filtered"
  /\ Len(allNews) > 50
  /\ Cardinality(Passing) > 50
  /\ Len(filtered) = 50

(***************************************************************************)
(* addCity, addKeyword, addExcludeKeyword                                  *)
(***************************************************************************)
\* rules.filterRules.<group>.values can be read: none of the three objects
\* on the way is undefined (reading a property of undefined is a TypeError).
HasGroupValues(r, name) ==
  /\ r.filterRules # Undefined
  /\ HasValues(Get(r.filterRules)[name])

\* Array.prototype.includes
ArrayIncludes(a, v) == \E i \in 1..Len(a) : a[i] = v

\* rules.filterRules.<group>.values.push(v)
PushValue(r, name, v) ==
  LET fr == Get(r.filterRules)
      g == Get(fr[name])
      pushed == [g EXCEPT !.values = Some(Append(Get(g.values), v))]
  IN [r EXCEPT !.filterRules = Some([fr EXCEPT ![name] = Some(pushed)])]

\* A mutator that pushes without looking whether the value is there.
AddValue_AlwaysPush(r, name, v) ==
  IF ~HasGroupValues(r, name)
  THEN [rules |-> r, report |-> "TypeError"]
  ELSE [rules |-> PushValue(r, name, v), report |-> "added"]

\* The body the three mutators share: the rules after the call and what the
\* call reported (the message logged, or the TypeError it raised).
AddValue(r, name, v) ==
  IF ~HasGroupValues(r, name)
  THEN [rules |-> r, report |-> "TypeError"]
  ELSE IF ~ArrayIncludes(ValuesOf(Get(r.filterRules)[name]), v)
  THEN [rules |-> PushValue(r, name, v), report |-> "added"]
  ELSE [rules |-> r, report |-> "exists"]

addCity(r, city) == AddValue(r, "cities", city)

addKeyword(r, keyword) == AddValue(r, "keywords", keyword)

addExcludeKeyword(r, keyword) == AddValue(r, "excludeKeywords", keyword)

(***************************************************************************)
(* Specification of the mutators: a duplicate-free rule document is        *)
(* loaded and the mutators are called on it in any order.                  *)
(***************************************************************************)
MutableRuleSets ==
  LET c == Some(Group(<< <<"A", "b">>, <<"c">> >>, Some(3)))
      k == Some(Group(<< <<"k">> >>, Some(2)))
      x == Some(Group(<< <<"X">> >>, Some(-100)))
      e == Some(Group(<<>>, Undefined))
  IN { Document(c, k, x, Some([categories |-> Some(Categories)]), Some(Num(5))),
       Document(e, e, e, Undefined, Some(Num(5))),
       Document(c, k, Undefined, Undefined, Undefined),
       [filterRules |-> Undefined, scoringRules |-> Undefined] }

\* The values the mutators are called with.
NewValues == { <<"A", "b">>, <<"a", "b">>, <<"k">> }

InitMutate ==
  /\ lastCall = Undefined
  /\ RunIdle
  /\ rules \in MutableRuleSets
  /\ filterRulesLoader = TRUE
  /\ tested = <<>>
  /\ scored = Undefined
  /\ validation = Undefined
  /\ allNews = <<>>
  /\ sourceIdx = 1
  /\ filtered = <<>>
  /\ pc = "rules"

Called(op, v, result) ==
  /\ rules' = result.rules
  /\ lastCall' = Some([op |-> op, value |-> v, report |-> result.report])
  /\ UNCHANGED <<tested, scored, validation, filterRulesLoader, allNews,
                 sourceIdx, filtered, pc, runVars>>

AddCity ==
  /\ pc = "rules"
  /\ \E v \in NewValues : Called("addCity", v, addCity(rules, v))

AddKeyword ==
  /\ pc = "rules"
  /\ \E v \in NewValues : Called("addKeyword", v, addKeyword(rules, v))

AddExcludeKeyword ==
  /\ pc = "rules"
  /\ \E v \in NewValues :
       Called("addExcludeKeyword", v, addExcludeKeyword(rules, v))

NextMutate == AddCity \/ AddKeyword \/ AddExcludeKeyword

SpecMutate == InitMutate /\ [][NextMutate]_vars

\* The group a mutator works on.
GroupOf(op) ==
  CASE op = "addCity" -> "cities"
    [] op = "addKeyword" -> "keywords"
    [] op = "addExcludeKeyword" -> "excludeKeywords"

NoDuplicates(a) == \A i, j \in 1..Len(a) : a[i] = a[j] => i = j

DuplicateFree(r) ==
  \A name \in {"cities", "keywords", "excludeKeywords"} :
    NoDuplicates(ConfiguredValues(r, name))

\* What a call of a mutator may change: with the values list of its group
\* put back, the document is the one before the call.
OnlyValuesChanged(r, after, name) ==
  IF HasGroupValues(r, name) /\ HasGroupValues(after, name)
  THEN [after EXCEPT !.filterRules =
          Some([Get(after.filterRules) EXCEPT ![name] =
                  Get(r.filterRules)[name]])] = r
  ELSE after = r

\* C11: a mutator called with a value its list holds changes nothing and
\* reports that the value exists; called with a value its list lacks it
\* appends the value at the end and leaves the rest of the document alone; a
\* duplicate-free list stays duplicate-free whatever calls are made.
C11_MutatorIsIdempotentInsert ==
  /\ []DuplicateFree(rules)
  /\ [][ \A c \in lastCall' :
           LET name == GroupOf(c.op)
               before == ConfiguredValues(rules, name)
               after == ConfiguredValues(rules', name)
           IN HasGroupValues(rules, name) =>
                /\ OnlyValuesChanged(rules, rules', name)
                /\ ArrayIncludes(before, c.value) =>
                     (rules' = rules /\ c.report = "exists")
                /\ ~ArrayIncludes(before, c.value) =>
                     (after = Append(before, c.value) /\ c.report = "added")
       ]_vars

\* A value was offered again to a list that had already grown by it: the
\* exclusion list holds every offered value next to its own.
C11_Witness ==
  /\ pc = "rules"
  /\ \E c \in lastCall :
       /\ c.op = "addExcludeKeyword"
       /\ c.report = "exists"
       /\ c.value = <<"a", "b">>
       /\ Len(ConfiguredValues(rules, "excludeKeywords")) = 4

(***************************************************************************)
(* loadFilterRules (filter-rules-loader and src/scripts/fetch-news.js)     *)
(***************************************************************************)
\* What JSON.parse returns for the text null.
JSNull == [null |-> TRUE]

\* The value of rules before main has assigned it.
NotLoaded == [notLoaded |-> TRUE]

\* A file that exists and cannot be read, one whose content is not JSON, and
\* one whose content is the JSON text of a value.
UnreadableFile == [kind |-> "unreadable"]

MalformedFile == [kind |-> "malformed"]

JSONFile(value) == [kind |-> "json", content |-> value]

\* The candidate locations, in the order tried, for the configPath that main
\* passes: './config/filter-rules.json' is looked up under the working
\* directory, the two joins with __dirname under the directory of the
\* script, the last under the working directory again.
possiblePaths == <<"cwd", "dir", "dir", "cwd">>

\* for (const p of possiblePaths) if (fs.existsSync(p)) { filePath = p; break }
FirstExisting(fs, paths) ==
  LET found == {i \in 1..Len(paths) : fs[paths[i]].kind # "absent"}
  IN IF found = {} THEN Undefined
     ELSE Some(paths[CHOOSE i \in found : \A j \in found : i <= j])

\* The rules returned and the diagnostic logged with them.
loadFilterRules(fs) ==
  LET filePath == FirstExisting(fs, possiblePaths)
  IN IF filePath = Undefined
     THEN [rules |-> getDefaultRules, signal |-> "notFound"]
     ELSE LET f == fs[Get(filePath)]
          IN IF f.kind = "json"
             THEN [rules |-> f.content, signal |-> "loaded"]
             ELSE [rules |-> getDefaultRules, signal |-> "failed"]

DEFAULT_FILTER_RULES ==
  [filterRules |-> Some(
     [cities |-> Some(
        [values |-> Some(<< <<"tai", "bei">>, <<"xin", "bei">>, <<"tao", "yuan">>,
                            <<"tai", "zhong">>, <<"tai", "nan">>, <<"gao", "xiong">> >>),
         weight |-> Some(10)]),
      keywords |-> Some(
        [values |-> Some(<< <<"mi", "shu", "chu">>, <<"mi", "shu", "zhang">>,
                            <<"shi", "zheng", "fu">>, <<"shi", "zhang">>,
                            <<"fu4", "shi", "zhang">>, <<"zheng", "ce">>,
                            <<"hui", "yi">>, <<"shi4", "cha">>,
                            <<"guo", "ji", "jiao", "liu">>, <<"qian", "shu3">>,
                            <<"xie", "yi">>, <<"gong", "gao">>, <<"tong", "zhi">>,
                            <<"xuan", "bu">>, <<"fa", "bu">> >>),
         weight |-> Some(5)]),
      excludeKeywords |-> Some(
        [values |-> Some(<< <<"yu", "le">>, <<"yun", "dong">>, <<"ming", "xing">>,
                            <<"ba", "gua">>, <<"gu", "shi">>, <<"fang", "shi">>,
                            <<"tian", "qi">>, <<"chong", "wu">>, <<"mei", "shi2">>,
                            <<"lv", "you">> >>),
         weight |-> Some(-100)]),
      categoryKeywords |-> Some([categories |-> Some(
        << [name |-> <<"mi", "shu", "chu", "ye", "wu2">>,
            keywords |-> Some(<< <<"mi", "shu", "chu">>, <<"mi", "shu", "zhang">>,
                                 <<"xing2", "zheng">>, <<"gong", "wu2">>,
                                 <<"ren", "shi6">> >>)],
           [name |-> <<"shi", "zheng", "xin", "wen">>,
            keywords |-> Some(<< <<"shi", "zhang">>, <<"fu4", "shi", "zhang">>,
                                 <<"shi", "zheng">>, <<"zheng", "ce">>,
                                 <<"hui", "yi">> >>)],
           [name |-> <<"guo", "ji", "jiao", "liu">>,
            keywords |-> Some(<< <<"guo", "ji">>, <<"jiao", "liu">>,
                                 <<"qian", "shu3">>, <<"xie", "yi">>,
                                 <<"you2", "hao">> >>)] >>)])]),
   scoringRules |-> Some([minScore |-> Some([type |-> "number", num |-> 5])])]

\* loadFilterRules of src/scripts/fetch-news.js
loadFilterRulesScript(loader, fs) ==
  IF loader THEN loadFilterRules(fs)
  ELSE [rules |-> DEFAULT_FILTER_RULES, signal |-> "builtin"]

(***************************************************************************)
(* generateTelegramMessage                                                 *)
(***************************************************************************)
\* The message is the groups of the records by city, in the order the cities
\* first occur, each with at most 5 of its records, and the total count;
\* threw tells that a record to show has no title or no summary, whose
\* substring cannot be taken.
MaxPerCity == 5

generateTelegramMessage(newsArray) ==
  LET first == {i \in 1..Len(newsArray) :
                  \A j \in 1..(i - 1) : newsArray[j].city # newsArray[i].city}
      nth(k) == CHOOSE i \in first : Cardinality({j \in first : j < i}) = k - 1
      items(k) == SelectSeq(newsArray,
                            LAMBDA n : n.city = newsArray[nth(k)].city)
      shown(k) == SubSeq(items(k), 1,
                         IF Len(items(k)) < MaxPerCity THEN Len(items(k))
                         ELSE MaxPerCity)
      groups == [k \in 1..Cardinality(first) |->
                   [city |-> newsArray[nth(k)].city, count |-> Len(items(k)),
                    items |-> shown(k)]]
  IN [empty |-> Len(newsArray) = 0,
      groups |-> groups,
      total |-> Len(newsArray),
      threw |-> \E k \in 1..Len(groups) : \E i \in 1..Len(groups[k].items) :
                  \/ groups[k].items[i].title = Undefined
                  \/ groups[k].items[i].summary = Undefined]

(***************************************************************************)
(* sendToTelegram                                                          *)
(***************************************************************************)
MaxRetries == 3

RetryDelay == 1000

\* A retry is made after the last attempt too.
ShouldRetry_OneMore(count) == count < MaxRetries

\* if (retryCount < 2)
ShouldRetry(count) == count < MaxRetries - 1

\* 1000 * Math.pow(2, retryCount)
Delay(count) == RetryDelay * 2^count

(***************************************************************************)
(* main: the environment is checked and the rules are loaded; the news are *)
(* fetched, filtered and formatted; the message is sent, with retries;     *)
(* the run ends with the log saved and an exit code.                       *)
(***************************************************************************)
\* What main does once sendToTelegram has returned: the steps it takes, the
\* error it throws and catches if any, and the exit code.
AfterSend_IgnoreResult(ok) ==
  [steps |-> <<"sheets", "saveLog">>, error |-> Undefined, exitCode |-> 0]

AfterSend(ok) ==
  IF ok
  THEN [steps |-> <<"sheets", "saveLog">>, error |-> Undefined, exitCode |-> 0]
  ELSE [steps |-> <<"saveLog">>, error |-> Some("SendFailed"), exitCode |-> 1]

\* filterNews reads rules.scoringRules: a TypeError when rules is null.
ThrowsOnRules(r) == r = JSNull

\* Rule documents a configuration file may hold.
FileDocuments ==
  { Document(Some(Group(<< <<"A", "b">>, <<"c">> >>, Some(3))),
             Some(Group(<< <<"k">> >>, Some(2))),
             Some(Group(<< <<"X">> >>, Some(-100))), Undefined, Some(Num(3))),
    [filterRules |-> Undefined, scoringRules |-> Undefined] }

Files ==
  {NoFile, UnreadableFile, MalformedFile, JSONFile(JSNull)}
    \cup {JSONFile(d) : d \in FileDocuments}

\* What fetchAllNews returns.
FetchedLists ==
  { <<>>,
    <<ExampleNews>>,
    <<News(<<"c", " ", "A", "b">>, <<"k">>, 1),
      News(<<"c">>, <<"z">>, 2)>> }

InitMain ==
  /\ lastCall = Undefined
  /\ files \in [cwd : Files, dir : Files]
  /\ env \in [botToken : BOOLEAN, chatId : BOOLEAN]
  /\ retryCount = 0
  /\ attempts = <<>>
  /\ delays = <<>>
  /\ sent = Undefined
  /\ message = Undefined
  /\ steps = <<>>
  /\ error = Undefined
  /\ exitCode = Undefined
  /\ rules = NotLoaded
  /\ filterRulesLoader \in BOOLEAN
  /\ tested = <<>>
  /\ scored = Undefined
  /\ validation = Undefined
  /\ allNews = <<>>
  /\ sourceIdx = 1
  /\ filtered = <<>>
  /\ pc = "m_start"

\* catch (error) { logger.error(...); logger.save(); process.exit(1) }
Catch(e, done) ==
  /\ error' = Some(e)
  /\ steps' = Append(done, "saveLog")
  /\ exitCode' = Some(1)
  /\ pc' = "m_exit"

\* main up to the call of fetchAllNews
MainStart ==
  /\ pc = "m_start"
  /\ IF ~env.botToken \/ ~env.chatId
     THEN /\ Catch("MissingEnv", steps)
          /\ UNCHANGED rules
     ELSE /\ rules' = loadFilterRulesScript(filterRulesLoader, files).rules
          /\ steps' = steps \o <<"load", "fetch">>
          /\ pc' = "m_fetch"
          /\ UNCHANGED <<error, exitCode>>
  /\ UNCHANGED <<tested, scored, validation, filterRulesLoader, allNews,
                 sourceIdx, filtered, lastCall, files, env, retryCount,
                 attempts, delays, sent, message>>

\* fetchAllNews has returned: filterNews, generateTelegramMessage and the
\* call of sendToTelegram
MainFetched ==
  /\ pc = "m_fetch"
  /\ \E news \in FetchedLists :
       /\ allNews' = news
       /\ IF ThrowsOnRules(rules)
          THEN /\ Catch("TypeError", Append(steps, "filter"))
               /\ UNCHANGED <<filtered, message>>
          ELSE LET f == filterNewsScript(filterRulesLoader, news, rules)
                   m == generateTelegramMessage(f)
               IN /\ filtered' = f
                  /\ IF m.threw
                     THEN /\ Catch("TypeError", steps \o <<"filter", "format">>)
                          /\ UNCHANGED message
                     ELSE /\ message' = Some(m)
                          /\ steps' = steps \o <<"filter", "format", "send">>
                          /\ pc' = "m_send"
                          /\ UNCHANGED <<error, exitCode>>
  /\ UNCHANGED <<rules, tested, scored, validation, filterRulesLoader,
                 sourceIdx, lastCall, files, env, retryCount, attempts,
                 delays, sent>>

\* axios.post has answered or failed: one attempt of sendToTelegram, up to
\* its return or to the timer it sets before the next attempt
SendAttempt ==
  /\ pc = "m_send"
  /\ \E outcome \in {"ok", "fail"} :
       /\ attempts' = Append(attempts, outcome)
       /\ IF outcome = "ok"
          THEN /\ sent' = Some(TRUE)
               /\ pc' = "m_sent"
               /\ UNCHANGED delays
          ELSE IF ShouldRetry(retryCount)
          THEN /\ delays' = Append(delays, Delay(retryCount))
               /\ pc' = "m_wait"
               /\ UNCHANGED sent
          ELSE /\ sent' = Some(FALSE)
               /\ pc' = "m_sent"
               /\ UNCHANGED delays
  /\ UNCHANGED <<rules, tested, scored, validation, filterRulesLoader, allNews,
                 sourceIdx, filtered, lastCall, files, env, retryCount,
                 message, steps, error, exitCode>>

\* the timer has fired: return sendToTelegram(..., retryCount + 1)
SendRetry ==
  /\ pc = "m_wait"
  /\ retryCount' = retryCount + 1
  /\ pc' = "m_send"
  /\ UNCHANGED <<rules, tested, scored, validation, filterRulesLoader, allNews,
                 sourceIdx, filtered, lastCall, files, env, attempts, delays,
                 sent, message, steps, error, exitCode>>

\* main after sendToTelegram has returned
MainFinish ==
  /\ pc = "m_sent"
  /\ LET a == AfterSend(Get(sent))
     IN /\ steps' = steps \o a.steps
        /\ error' = a.error
        /\ exitCode' = Some(a.exitCode)
  /\ pc' = "m_exit"
  /\ UNCHANGED <<rules, tested, scored, validation, filterRulesLoader, allNews,
                 sourceIdx, filtered, lastCall, files, env, retryCount,
                 attempts, delays, sent, message>>

NextMain == MainStart \/ MainFetched \/ SendAttempt \/ SendRetry \/ MainFinish

SpecMain == InitMain /\ [][NextMain]_vars

\* Every request is answered or times out, every timer fires, and main goes
\* on when what it awaits is settled.
SpecMainFair == SpecMain /\ WF_vars(NextMain)

(***************************************************************************)
(* Properties of a run of main (specifications SpecMain, SpecMainFair).    *)
(***************************************************************************)
\* The file loadFilterRules reads: the first candidate location that exists.
TriedFile == IF files.cwd # NoFile THEN files.cwd ELSE files.dir

\* No candidate location holds a file, or the file found cannot be read or
\* parsed.
NothingToLoad ==
  \/ files.cwd = NoFile /\ files.dir = NoFile
  \/ TriedFile.kind \in {"unreadable", "malformed"}

\* C12: loadFilterRules returns without raising; it returns the built-in
\* default rules when no file is found or the file found cannot be read or
\* parsed; and filtering against what it returned raises nothing.
C12_LoadReturnsUsableRules ==
  rules # NotLoaded =>
    /\ NothingToLoad =>
         rules = IF filterRulesLoader THEN getDefaultRules
                 ELSE DEFAULT_FILTER_RULES
    /\ error # Some("TypeError")

\* The sequence s begins with the sequence p.
IsPrefix(p, s) == Len(p) <= Len(s) /\ p = SubSeq(s, 1, Len(p))

Failures == Cardinality({i \in 1..Len(attempts) : attempts[i] = "fail"})

\* C15: a call of sendToTelegram makes at most 3 attempts and none after a
\* success; it returns true with the first success and false only after 3
\* failures; it waits 1000 ms after the first failure and 2000 ms after the
\* second, each before the next attempt, and not after the third; and a call
\* under way returns.
C15_ThreeAttemptsWithBackoff ==
  /\ [](/\ Len(attempts) <= 3
        /\ \A i \in 1..(Len(attempts) - 1) : attempts[i] = "fail"
        /\ sent = Some(TRUE) <=>
             (attempts # <<>> /\ attempts[Len(attempts)] = "ok")
        /\ sent = Some(FALSE) <=> attempts = <<"fail", "fail", "fail">>
        /\ IsPrefix(delays, <<1000, 2000>>)
        /\ Len(delays) = IF Failures < 2 THEN Failures ELSE 2
        /\ pc = "m_send" => (Len(delays) = Len(attempts) /\ sent = Undefined))
  /\ (pc = "m_send") ~> (sent # Undefined)

\* The call failed three times, waited twice and returned false.
C15_Witness ==
  /\ sent = Some(FALSE)
  /\ attempts = <<"fail", "fail", "fail">>
  /\ delays = <<1000, 2000>>
  /\ retryCount = 2

InSteps(name) == \E i \in 1..Len(steps) : steps[i] = name

\* C16: main calls load, fetch, filter, format, send, Sheets save and log
\* save in this order; with a missing environment variable nothing is
\* loaded, fetched or sent; the Sheets save and exit code 0 come only after
\* sendToTelegram returned true; a failed send or a thrown error ends the run
\* with exit code 1; and at every exit the last thing done is the log save.
C16_MainRunsInOrder ==
  LET order == <<"load", "fetch", "filter", "format", "send", "sheets",
                 "saveLog">>
      calls == IF exitCode = Some(1) THEN SubSeq(steps, 1, Len(steps) - 1)
               ELSE steps
  IN /\ IF exitCode = Some(1) THEN IsPrefix(calls, SubSeq(order, 1, 5))
        ELSE IsPrefix(calls, order)
     /\ (~env.botToken \/ ~env.chatId) =>
          /\ ~InSteps("load") /\ ~InSteps("fetch") /\ ~InSteps("send")
          /\ attempts = <<>>
          /\ allNews = <<>>
     /\ attempts # <<>> => InSteps("send")
     /\ InSteps("sheets") => sent = Some(TRUE)
     /\ exitCode = Some(0) => (sent = Some(TRUE) /\ steps = order)
     /\ pc = "m_exit" <=> exitCode # Undefined
     /\ pc = "m_exit" =>
          /\ steps[Len(steps)] = "saveLog"
          /\ (sent = Some(FALSE) \/ error # Undefined \/ ~env.botToken
                \/ ~env.chatId) => exitCode = Some(1)
          /\ (sent = Some(TRUE) /\ error = Undefined) => exitCode = Some(0)

\* A run that fetched news, kept some, sent the message at the third attempt
\* and ended with exit code 0.
C16_Witness ==
  /\ pc = "m_exit"
  /\ exitCode = Some(0)
  /\ Len(filtered) >= 1
  /\ attempts = <<"fail", "fail", "ok">>
  /\ steps[Len(steps)] = "saveLog"

(***************************************************************************)
(* Candidate records that lack a title or a summary.                       *)
(***************************************************************************)
MalformedRuleSets ==
  LET c == Some(Group(<< <<"f", "i", "n">>, <<"c">> >>, Some(3)))
      k == Some(Group(<< <<"D", "e", "f">>, <<"k">> >>, Some(2)))
      x == Some(Group(<< <<"u", "n", "d">> >>, Some(-100)))
      g == Some([categories |-> Some(
                   << [name |-> <<"cat1">>,
                       keywords |-> Some(<< <<"n", "e", "d">> >>)] >>)])
  IN { Document(c, k, Undefined, g, Some(Num(5))),
       Document(c, k, x, Undefined, Some(Num(5))),
       Document(Some(Group(<< <<"A", "b">>, <<"c">> >>, Some(3))),
                Some(Group(<< <<"k">> >>, Some(2))),
                Some(Group(<< <<"X">> >>, Some(-100))),
                Some([categories |-> Some(Categories)]), Some(Num(5))),
       getDefaultRules }

MalformedCandidates ==
  { [title |-> Undefined, summary |-> Some(<<"c">>), url |-> 0],
    [title |-> Some(<<"c", " ", "k">>), summary |-> Undefined, url |-> 0],
    [title |-> Undefined, summary |-> Undefined, url |-> 0],
    [title |-> Undefined, summary |-> Some(<<>>), url |-> 0],
    [title |-> Some(<<"A", "b">>), summary |-> Undefined, url |-> 0],
    [title |-> Undefined, summary |-> Some(ExampleSummary), url |-> 0] }

InitMalformed ==
  /\ lastCall = Undefined
  /\ RunIdle
  /\ rules \in MalformedRuleSets
  /\ filterRulesLoader \in BOOLEAN
  /\ tested = <<>>
  /\ scored = Undefined
  /\ validation = Undefined
  /\ allNews \in {<<n>> : n \in MalformedCandidates}
  /\ sourceIdx = 1
  /\ filtered = <<>>
  /\ pc = "rules"

SpecMalformed == InitMalformed /\ [][Next]_vars

\* The record with the empty string for a title or summary it lacks.
WithEmptyStrings(n) ==
  [n EXCEPT !.title = IF @ = Undefined THEN Some(<<>>) ELSE @,
            !.summary = IF @ = Undefined THEN Some(<<>>) ELSE @]

\* C13: a record that lacks its title or its summary gets the score, the
\* city and the category that the same record gets with the empty string in
\* the place of what it lacks.
C13_MissingFieldIsEmptyString ==
  /\ \A i \in 1..Len(tested) :
       LET n == WithEmptyStrings(tested[i].news)
       IN /\ tested[i].score = calculateScore(n, rules)
          /\ tested[i].city = extractCity(n, rules)
          /\ tested[i].category = extractCategory(n, rules)
  /\ \A s \in scored :
       s.score = calculateScoreScript(filterRulesLoader,
                                      WithEmptyStrings(s.news), rules)

(***************************************************************************)
(* The three calculateScore functions on the same rules (specification     *)
(* Spec).                                                                  *)
(***************************************************************************)
\* C17: on the same record and on rules with the same cities, keywords,
\* exclude keywords and weights, calculateScore of the loader, the built-in
\* copy of fetch-news.js and calculateScore of the script with inline rules
\* return the same score.
C17_VariantsAgree ==
  \A s \in scored :
    /\ s.loader = s.builtin
    /\ \A inlineScore \in s.inlineSame : inlineScore = s.loader

(***************************************************************************)
(* The pipeline on rule documents that lack a group (specification         *)
(* SpecPartial).                                                           *)
(***************************************************************************)
PartialFilterRuleSets ==
  LET c == Some(Group(<< <<"A", "b">>, <<"c">> >>, Some(3)))
      k == Some(Group(<< <<"k">> >>, Some(2)))
      x == Some(Group(<< <<"Z">> >>, Some(-100)))
      g == Some([categories |-> Some(Categories)])
      m == Some(Num(3))
      full == Document(c, k, x, g, m)
  IN { full,
       Document(c, k, Undefined, g, m),
       Document(c, k, x, Undefined, m),
       Document(Undefined, k, x, g, Some(Num(2))),
       Document(c, Undefined, x, g, m),
       Document(Some([values |-> Undefined, weight |-> Some(3)]), k,
                Some([values |-> Undefined, weight |-> Undefined]), g,
                Some(Num(2))),
       [filterRules |-> Undefined,
        scoringRules |-> Some([minScore |-> Some(Num(-1))])],
       [full EXCEPT !.scoringRules = Undefined] }

InitPartial ==
  /\ lastCall = Undefined
  /\ RunIdle
  /\ rules \in PartialFilterRuleSets
  /\ filterRulesLoader \in BOOLEAN
  /\ tested = <<>>
  /\ scored = Undefined
  /\ validation = Undefined
  /\ allNews = <<>>
  /\ sourceIdx = 1
  /\ filtered = <<>>
  /\ pc = "fetch"

SpecPartial == InitPartial /\ [][NextFilter]_vars

\* The rule document has no values for a group.
MissingGroup(r, name) ==
  \/ r.filterRules = Undefined
  \/ Get(r.filterRules)[name] = Undefined
  \/ Get(Get(r.filterRules)[name]).values = Undefined

MissingCategories(r) ==
  \/ r.filterRules = Undefined
  \/ Get(r.filterRules).categoryKeywords = Undefined
  \/ Get(Get(r.filterRules).categoryKeywords).categories = Undefined

\* The score of a record when a missing group is an empty group: the weight
\* of each group that is there times its matches, 0 when an exclude keyword
\* that is there occurs.
ScoreWithEmptyGroups(n, r) ==
  IF Excluded(n, r) THEN 0
  ELSE ConfiguredWeight(r, "cities", DefaultCityWeight) * CityCount(n, r)
       + ConfiguredWeight(r, "keywords", DefaultKeywordWeight)
           * KeywordCount(n, r)

\* C14: on a rule document that lacks filterRules, scoringRules or a group,
\* filterNews returns, and what it returns is what the missing groups taken
\* as empty give: every record kept has the score of its matches in the groups
\* that are there, no record is excluded when excludeKeywords is missing, the
\* city is the sentinel when cities is missing, the category is the sentinel
\* when categoryKeywords is missing, and of at most 50 records the ones kept
\* are those whose score reaches minScore (5 when scoringRules is missing).
C14_MissingGroupIsEmpty ==
  pc = "filtered" =>
    LET m == ConfiguredMinScore(rules)
        least == IF m = Undefined THEN DefaultMinScore ELSE Get(m).num
    IN /\ \A i \in 1..Len(filtered) :
            LET n == allNews[filtered[i].url]
            IN /\ filtered[i].score = ScoreWithEmptyGroups(n, rules)
               /\ MissingGroup(rules, "excludeKeywords") =>
                    filtered[i].score =
                      ConfiguredWeight(rules, "cities", DefaultCityWeight)
                        * CityCount(n, rules)
                      + ConfiguredWeight(rules, "keywords", DefaultKeywordWeight)
                          * KeywordCount(n, rules)
               /\ MissingGroup(rules, "cities") =>
                    (filtered[i].city = Other /\ CityCount(n, rules) = 0)
               /\ MissingGroup(rules, "keywords") => KeywordCount(n, rules) = 0
               /\ MissingCategories(rules) => filtered[i].category = Other
       /\ Len(allNews) <= 50 =>
            {filtered[i].url : i \in 1..Len(filtered)}
              = {j \in 1..Len(allNews) :
                   ScoreWithEmptyGroups(allNews[j], rules) >= least}

\* Under rules without excludeKeywords, filterNews kept a record that the
\* exclude keyword of the full rules would have removed, next to another one.
C14_Witness ==
  /\ pc = "filtered"
  /\ rules.filterRules # Undefined
  /\ Get(rules.filterRules).excludeKeywords = Undefined
  /\ Len(filtered) >= 2
  /\ \E i \in 1..Len(filtered) :
       /\ includes(toLowerCase(ConcatText(allNews[filtered[i].url])), <<"z">>)
       /\ filtered[i].score = 6
       /\ filtered[i].city # Other

====
